---- MODULE Spec2Model ----
(***************************************************************************)
(* LexIntake frontend (avocatt/accident-analyzer): the App step machine    *)
(* (App.jsx) and the UploadSection form (components/UploadSection, carried *)
(* in AnalysisResults.jsx lines 337-596), with the analyze request that    *)
(* connects them.                                                          *)
(*                                                                         *)
(* JavaScript values are tagged records: Undefined, Null, JsStr(s) and     *)
(* JsArr(s).  Text typed by the user is a sequence of characters so that   *)
(* trimming is computed, not assumed.  A FormData is the record of its     *)
(* getAll(key) lists.  While UploadSection is not mounted (currentStep is  *)
(* not 'upload') its useState cells do not exist; the model keeps them at  *)
(* their initial values, which is what a later mount starts from.          *)
(***************************************************************************)
EXTENDS Integers, Sequences, FiniteSets, TLC

VARIABLES
    currentStep,       \* App.jsx:28
    analysisResult,    \* App.jsx:29
    error,             \* App.jsx:30
    mainReport,        \* UploadSection: useState(null)
    additionalPhotos,  \* UploadSection: useState([])
    clientInfo,        \* UploadSection: useState({name:'', email:'', notes:''})
    errors,            \* UploadSection: useState({})
    inflight,          \* POST /api/analyze requests issued and not yet settled
    nextId,            \* history: identity of the next File object given to onDropPhotos
    activeTab,         \* AnalysisResults: useState('summary')
    downloads,         \* history: files the mounted results view handed to the browser
    lastAlert,         \* history: text of the last alert() of the mounted results view
    infer              \* the Inference Client's run (backend, modelled from the specification)

vars == << currentStep, analysisResult, error, mainReport, additionalPhotos,
           clientInfo, errors, inflight, nextId, activeTab, downloads, lastAlert, infer >>

formVars == << mainReport, additionalPhotos, clientInfo, errors, nextId >>
appVars == << currentStep, analysisResult, error, inflight >>
viewVars == << activeTab, downloads, lastAlert >>

----------------------------------------------------------------------------
(* Bounds of the model *)

\* files in one drop event
MaxDrop == 2
\* HTML downloads recorded for one results view
MaxDownloads == 2
\* File objects accepted by the photo dropzone during one mount of the form
MaxIds == 6

(* Program constants *)

\* maxSize of both dropzones
MaxSize == 10485760
\* .slice(0, 5)
MaxPhotos == 5

----------------------------------------------------------------------------
(* JavaScript values *)

Undefined == [t |-> "undefined", v |-> ""]
Null == [t |-> "null", v |-> ""]
JsStr(s) == [t |-> "string", v |-> s]
JsArr(s) == [t |-> "array", v |-> s]
\* a number, kept exact as the fraction num/den with den > 0
Num(n, d) == [t |-> "number", num |-> n, den |-> d]

\* a plain object (a parsed JSON object): a record without the value tag
IsObject(x) == "t" \notin DOMAIN x

\* ToBoolean
Truthy(x) ==
    IF IsObject(x)
    THEN TRUE
    ELSE CASE x.t \in {"undefined", "null"} -> FALSE
           [] x.t = "string" -> x.v # ""
           [] x.t = "number" -> x.num # 0
           [] OTHER -> TRUE

IsString(x) == x.t = "string"

----------------------------------------------------------------------------
(* Files.  type is the MIME type as <<base, subtype>>, ext the lower-cased *)
(* extension of the file name, size the length in bytes.                   *)

File(base, sub, ext, size) == [type |-> <<base, sub>>, ext |-> ext, size |-> size]

PdfFile == File("application", "pdf", ".pdf", 204800)
PngFile == File("image", "png", ".png", MaxSize)
WebpFile == File("image", "webp", ".webp", 204800)
TxtFile == File("text", "plain", ".txt", 204800)
BigJpgFile == File("image", "jpeg", ".jpg", MaxSize + 1)

RECURSIVE SeqsUpTo(_, _)
SeqsUpTo(S, n) ==
    IF n = 0 THEN {<< >>}
    ELSE LET shorter == SeqsUpTo(S, n - 1)
         IN  shorter \cup {Append(s, x) : s \in shorter, x \in S}

\* what the user drops on the report zone: any one file, or several at once
ReportDropFiles == {PdfFile, PngFile, WebpFile, TxtFile, BigJpgFile}
ReportDrops ==
    {<<f>> : f \in ReportDropFiles}
        \cup {s \in SeqsUpTo({PdfFile, TxtFile}, MaxDrop) : Len(s) > 1}

\* what the user drops on the photo zone: one file or several at once
PhotoDropFiles == {PngFile, PdfFile, BigJpgFile}
PhotoDrops == SeqsUpTo(PhotoDropFiles, MaxDrop) \ {<< >>}

----------------------------------------------------------------------------
(* react-dropzone, as configured by the two useDropzone calls.  The accept *)
(* object becomes the accept list "key, ...extensions" of every entry; a   *)
(* file matches the list when its MIME type equals an entry, its base type *)
(* matches a "base/*" entry, or its name ends with a listed extension.     *)

ImageExtensions == {".png", ".jpg", ".jpeg", ".gif", ".bmp"}

\* accept: { 'application/pdf': ['.pdf'], 'image/*': [...] }
ReportAccept ==
    [mimes |-> {<<"application", "pdf">>, <<"image", "*">>},
     exts |-> {".pdf"} \cup ImageExtensions]

\* the photo zone with 'image/png' in place of 'image/*'
PhotosAccept_PngOnly ==
    [mimes |-> {<<"image", "png">>},
     exts |-> ImageExtensions]

\* accept: { 'image/*': [...] }
PhotosAccept ==
    [mimes |-> {<<"image", "*">>},
     exts |-> ImageExtensions]

fileAccepted(file, accept) ==
    \/ \E m \in accept.mimes :
          \/ m = file.type
          \/ m[2] = "*" /\ m[1] = file.type[1]
    \/ file.ext \in accept.exts

fileMatchSize(file, maxSize) == file.size <= maxSize

\* the acceptedFiles handed to onDrop; with multiple: false a drop of more
\* than one acceptable file is rejected whole
acceptedFiles(files, accept, multiple, maxSize) ==
    LET ok(f) == fileAccepted(f, accept) /\ fileMatchSize(f, maxSize)
        passed == SelectSeq(files, ok)
    IN  IF ~multiple /\ Len(passed) > 1 THEN << >> ELSE passed

reportAccepted(files) == acceptedFiles(files, ReportAccept, FALSE, MaxSize)
photosAccepted(files) == acceptedFiles(files, PhotosAccept, TRUE, MaxSize)

----------------------------------------------------------------------------
(* UploadSection *)

RequiredMessage == "Kaza Tespit Tutanagi is required"

InitialClientInfo == [name |-> << >>, email |-> << >>, notes |-> << >>]
InitialErrors == [report |-> Undefined]

\* text the user can leave in each input; the e-mail input is type="email"
NameInputs == {<< >>, <<" ">>, <<"a">>}
EmailInputs == {<< >>, <<"a">>}
NotesInputs == {<< >>, <<" ", "a", " ">>}

\* the File objects of one drop, in drop order, with their identities
Stamped(files, first) == [i \in 1..Len(files) |-> [id |-> first + i - 1, file |-> files[i]]]

\* [...prev, ...acceptedFiles] with the slice forgotten
photosAfterDrop_NoSlice(prev, accepted) == prev \o accepted

\* [...acceptedFiles, ...prev].slice(0, 5)
photosAfterDrop_Prepend(prev, accepted) ==
    LET all == accepted \o prev
    IN  SubSeq(all, 1, IF Len(all) < MaxPhotos THEN Len(all) ELSE MaxPhotos)

\* [...prev, ...acceptedFiles].slice(-5)
photosAfterDrop_KeepLast(prev, accepted) ==
    LET all == prev \o accepted
    IN  SubSeq(all, IF Len(all) < MaxPhotos THEN 1 ELSE Len(all) - MaxPhotos + 1, Len(all))

\* [...prev, ...acceptedFiles].slice(0, 5)
photosAfterDrop(prev, accepted) ==
    LET all == prev \o accepted
    IN  SubSeq(all, 1, IF Len(all) < MaxPhotos THEN Len(all) ELSE MaxPhotos)

\* prev.filter((_, i) => i !== index), index counted from 1 here
photosAfterRemove(prev, index) ==
    [i \in 1..(Len(prev) - 1) |-> IF i < index THEN prev[i] ELSE prev[i + 1]]

\* validateForm with the mainReport test forgotten
validateForm_AlwaysValid(report) == [report |-> Undefined]

\* the newErrors object of validateForm
validateForm(report) ==
    IF report = Null THEN [report |-> JsStr(RequiredMessage)] ELSE [report |-> Undefined]

\* Object.keys(newErrors).length === 0
noErrors(newErrors) == newErrors.report = Undefined

EmptyFormData ==
    [accident_report |-> << >>, photos |-> << >>, client_name |-> << >>,
     client_email |-> << >>, additional_notes |-> << >>]

\* formData.append(key, value)
formAppend(fd, key, value) == [fd EXCEPT ![key] = Append(@, value)]

\* if (field) formData.append(key, field)
formAppendIf(fd, key, field) == IF field # << >> THEN formAppend(fd, key, field) ELSE fd

RECURSIVE formAppendAll(_, _, _)
formAppendAll(fd, key, values) ==
    IF values = << >> THEN fd
    ELSE formAppendAll(formAppend(fd, key, Head(values)), key, Tail(values))

\* handleSubmit appending the report once more for every photo
buildFormData_ReportPerPhoto(report, photos, info) ==
    LET fd1 == formAppend(EmptyFormData, "accident_report", report)
        fd2 == formAppendAll(fd1, "photos", photos)
        fd3 == formAppendAll(fd2, "accident_report", [i \in 1..Len(photos) |-> report])
        fd4 == formAppendIf(fd3, "client_name", info.name)
        fd5 == formAppendIf(fd4, "client_email", info.email)
    IN  formAppendIf(fd5, "additional_notes", info.notes)

\* the FormData handleSubmit builds once validateForm has passed
buildFormData(report, photos, info) ==
    LET fd1 == formAppend(EmptyFormData, "accident_report", report)
        fd2 == formAppendAll(fd1, "photos", photos)
        fd3 == formAppendIf(fd2, "client_name", info.name)
        fd4 == formAppendIf(fd3, "client_email", info.email)
    IN  formAppendIf(fd4, "additional_notes", info.notes)

\* a form that keeps its state across unmounting
FormUnmounted_KeepsState ==
    UNCHANGED << mainReport, additionalPhotos, clientInfo, errors, nextId >>

FormUnmounted ==
    /\ mainReport' = Null
    /\ additionalPhotos' = << >>
    /\ clientInfo' = InitialClientInfo
    /\ errors' = InitialErrors
    /\ nextId' = 1

\* onDropReport without the setErrors call
reportAfterDrop_KeepsError(report, errs, files) ==
    LET accepted == reportAccepted(files)
    IN  IF Len(accepted) > 0
        THEN [mainReport |-> accepted[1], errors |-> errs]
        ELSE [mainReport |-> report, errors |-> errs]

\* onDropReport without the length test: acceptedFiles[0] of an empty array
\* is undefined
reportAfterDrop_NoLengthTest(report, errs, files) ==
    LET accepted == reportAccepted(files)
    IN  [mainReport |-> (IF Len(accepted) > 0 THEN accepted[1] ELSE Undefined),
         errors |-> [errs EXCEPT !.report = Null]]

\* mainReport and errors after onDropReport(acceptedFiles)
reportAfterDrop(report, errs, files) ==
    LET accepted == reportAccepted(files)
    IN  IF Len(accepted) > 0
        THEN [mainReport |-> accepted[1], errors |-> [errs EXCEPT !.report = Null]]
        ELSE [mainReport |-> report, errors |-> errs]

\* onDropReport for one drop event
onDropReportOf(files) ==
    LET after == reportAfterDrop(mainReport, errors, files)
    IN  /\ mainReport' = after.mainReport
        /\ errors' = after.errors
        /\ UNCHANGED << additionalPhotos, clientInfo, nextId >>
        /\ UNCHANGED appVars
        /\ UNCHANGED << viewVars, infer >>

onDropReport ==
    /\ currentStep = "upload"
    /\ \E files \in ReportDrops : onDropReportOf(files)

\* onDropPhotos for one drop event
onDropPhotosOf(files) ==
    LET accepted == photosAccepted(files)
    IN  /\ nextId + Len(accepted) - 1 <= MaxIds
        /\ additionalPhotos' = photosAfterDrop(additionalPhotos, Stamped(accepted, nextId))
        /\ nextId' = nextId + Len(accepted)
        /\ UNCHANGED << mainReport, clientInfo, errors >>
        /\ UNCHANGED appVars
        /\ UNCHANGED << viewVars, infer >>

onDropPhotos ==
    /\ currentStep = "upload"
    /\ \E files \in PhotoDrops : onDropPhotosOf(files)

removePhoto ==
    /\ currentStep = "upload"
    /\ \E index \in 1..Len(additionalPhotos) :
          additionalPhotos' = photosAfterRemove(additionalPhotos, index)
    /\ UNCHANGED << mainReport, clientInfo, errors, nextId >>
    /\ UNCHANGED appVars
    /\ UNCHANGED << viewVars, infer >>

removeReport ==
    /\ currentStep = "upload"
    /\ mainReport # Null
    /\ mainReport' = Null
    /\ UNCHANGED << additionalPhotos, clientInfo, errors, nextId >>
    /\ UNCHANGED appVars
    /\ UNCHANGED << viewVars, infer >>

setClientInfo ==
    /\ currentStep = "upload"
    /\ \/ \E value \in NameInputs : clientInfo' = [clientInfo EXCEPT !.name = value]
       \/ \E value \in EmailInputs : clientInfo' = [clientInfo EXCEPT !.email = value]
       \/ \E value \in NotesInputs : clientInfo' = [clientInfo EXCEPT !.notes = value]
    /\ UNCHANGED << mainReport, additionalPhotos, errors, nextId >>
    /\ UNCHANGED appVars
    /\ UNCHANGED << viewVars, infer >>

----------------------------------------------------------------------------
(* The backend pipeline behind POST /api/analyze.  Its code is not part of *)
(* the sources at hand; what the response carries is modelled from the     *)
(* specification (sections 3, 4.4 and 4.6).                                *)

NumEq(a, b) == a.num * b.den = b.num * a.den
NumAdd(a, b) == Num(a.num * b.den + b.num * a.den, a.den * b.den)
Hundred == Num(100, 1)

\* 4.4 with the rescaling forgotten
normalizeFault_AsSupplied(rawA, rawB) == <<rawA, rawB>>

\* 4.4 fault-percentage normalization: rescale proportionally when both are
\* supplied and do not sum to 100, derive the complement when one is, leave
\* both absent when neither is
normalizeFault(rawA, rawB) ==
    CASE rawA = Null /\ rawB = Null -> <<Null, Null>>
      [] rawA # Null /\ rawB = Null -> <<rawA, Num(100 * rawA.den - rawA.num, rawA.den)>>
      [] rawA = Null /\ rawB # Null -> <<Num(100 * rawB.den - rawB.num, rawB.den), rawB>>
      [] OTHER ->
            LET total == NumAdd(rawA, rawB)
            IN  IF NumEq(total, Hundred) \/ total.num = 0
                THEN <<rawA, rawB>>
                ELSE <<Num(100 * rawA.num * rawB.den, total.num),
                       Num(100 * rawB.num * rawA.den, total.num)>>

\* the fault percentages of a provider response: absent, summing to 100, or not
RawFaults ==
    {<<Null, Null>>, <<Num(70, 1), Num(30, 1)>>, <<Num(60, 1), Num(60, 1)>>,
     <<Num(40, 1), Null>>, <<Null, Num(0, 1)>>, <<Num(0, 1), Num(50, 1)>>,
     <<Num(10, 1), Num(20, 1)>>}

\* expected fields a provider response may lack
ExpectedFields == {"party_a.name", "party_b.insurance_company"}
MissingCases == {<< >>, <<"party_b.insurance_company">>,
                 <<"party_a.name", "party_b.insurance_company">>}

\* 4.4 confidence: fields present and well-typed over fields expected
confidence(missing) ==
    Num(Cardinality(ExpectedFields) - Len(missing), Cardinality(ExpectedFields))

\* photo_analyses in submission order, each with the photo_id the provider gave
PhotoAnalysis(id) == [photo_id |-> Num(id, 1), description |-> "damage"]
PhotoCases ==
    {<< >>, <<PhotoAnalysis(1), PhotoAnalysis(2)>>, <<PhotoAnalysis(2), PhotoAnalysis(1)>>}

caseAnalysis(raw, missing, photos) ==
    LET fault == normalizeFault(raw[1], raw[2])
    IN  [fault_assessment |->
             [party_a_fault_percentage |-> fault[1],
              party_b_fault_percentage |-> fault[2]],
         extraction_confidence |-> confidence(missing),
         missing_information |-> missing,
         photo_analyses |-> photos]

\* 4.6 render: the same CaseAnalysis and session_id give the same document
render(analysis, session) ==
    [document |-> "briefing", session |-> session, analysis |-> analysis]

\* the body of a 2xx response
backendResult(session, raw, missing, photos) ==
    LET analysis == caseAnalysis(raw, missing, photos)
    IN  [session_id |-> session,
         analysis |-> analysis,
         briefing_html |-> render(analysis, session)]

\* the same body with the absent fault percentages left out of the JSON object
\* instead of written as null: reading the key then gives undefined
withoutAbsentKeys(result) ==
    LET fault == result.analysis.fault_assessment
    IN  [result EXCEPT !.analysis.fault_assessment =
            [k \in DOMAIN fault |-> IF fault[k] = Null THEN Undefined ELSE fault[k]]]

----------------------------------------------------------------------------
(* The Inference Client (specification 4.3 and 9): one call of the         *)
(* external provider per attempt, transient failures retried after a       *)
(* backoff up to a fixed ceiling, other failures surfaced at once, the     *)
(* run abandoned when the pipeline cancels it.  Backend code, not part of  *)
(* the sources at hand.                                                    *)

\* retries after the first attempt
RetryCeiling == 2

TransientFailures == {"timeout", "http_5xx", "rate_limit"}
FatalFailures == {"auth"}
ProviderOutcomes == {"ok"} \cup TransientFailures \cup FatalFailures

\* what the provider answers to the 1st, 2nd, ... attempt of one run
ProviderScripts == [1..(RetryCeiling + 1) -> ProviderOutcomes]

\* the Inference Client before any run
InferIdle == [status |-> "idle"]

InferStart(script) ==
    [status |-> "calling", script |-> script, attempt |-> 1, waited |-> << >>,
     result |-> "none", cause |-> "none"]

\* the client surfacing the first transient failure without a retry
inferAfterAttempt_NoRetry(run) ==
    LET outcome == run.script[run.attempt]
    IN  IF outcome = "ok"
        THEN [run EXCEPT !.status = "done", !.result = "response"]
        ELSE [run EXCEPT !.status = "failed", !.result = "Exhausted", !.cause = outcome]

\* the run after the provider has answered the current attempt
inferAfterAttempt(run) ==
    LET outcome == run.script[run.attempt]
    IN  CASE outcome = "ok" ->
                [run EXCEPT !.status = "done", !.result = "response"]
          [] outcome \in FatalFailures ->
                [run EXCEPT !.status = "failed", !.result = "Fatal", !.cause = outcome]
          [] OTHER ->
                IF run.attempt <= RetryCeiling
                THEN [run EXCEPT !.status = "backoff", !.waited = Append(@, run.attempt)]
                ELSE [run EXCEPT !.status = "failed", !.result = "Exhausted", !.cause = outcome]

\* the provider answers the attempt in progress
InferAttempt ==
    /\ infer.status = "calling"
    /\ infer' = inferAfterAttempt(infer)
    /\ UNCHANGED << appVars, formVars, viewVars >>

\* the backoff interval is over: the next attempt starts, one at a time
InferResume ==
    /\ infer.status = "backoff"
    /\ infer' = [infer EXCEPT !.status = "calling", !.attempt = @ + 1]
    /\ UNCHANGED << appVars, formVars, viewVars >>

\* the end-to-end timeout cancels the run at a call or in a backoff
InferCancel ==
    /\ infer.status \in {"calling", "backoff"}
    /\ infer' = [infer EXCEPT !.status = "cancelled", !.result = "Timeout"]
    /\ UNCHANGED << appVars, formVars, viewVars >>

----------------------------------------------------------------------------
(* App *)

FallbackMessage == "An error occurred during analysis. Please try again."

\* bodies of a 2xx response
ResultBodies ==
    {backendResult("s1", raw, << >>, << >>) : raw \in RawFaults}
        \cup {backendResult("s2", <<Num(70, 1), Num(30, 1)>>, missing, photos) :
                  missing \in MissingCases, photos \in PhotoCases}
        \cup {withoutAbsentKeys(backendResult("s3", <<Null, Null>>, << >>, << >>))}

\* a 2xx response without a JSON object: an empty body (data is '') or the
\* JSON text null
EmptyBodies == {JsStr(""), Null}

\* response.data of a 2xx response
ResponseBodies == ResultBodies \cup EmptyBodies

\* err.response of a rejected axios promise: absent (network failure, timeout),
\* or a response whose data has a detail or none
NoResponse == [present |-> FALSE, detail |-> Undefined]
ErrorResponse(detail) == [present |-> TRUE, detail |-> detail]
ErrorDetails ==
    {Undefined, JsStr(""), JsStr("Invalid file type"), JsArr("validation errors")}

\* err.response?.data?.detail || 'An error occurred during analysis. Please try again.'
errorMessage(response) ==
    IF response.present /\ Truthy(response.detail)
    THEN response.detail
    ELSE JsStr(FallbackMessage)

\* handleAnalyze without setError(null)
handleAnalyzeStart_KeepsError(formData) ==
    /\ currentStep' = "analyzing"
    /\ inflight' = Append(inflight, formData)
    /\ UNCHANGED << error, analysisResult >>
    /\ UNCHANGED << viewVars, infer >>

\* handleAnalyze without setCurrentStep('analyzing')
handleAnalyzeStart_NoStep(formData) ==
    /\ error' = Null
    /\ inflight' = Append(inflight, formData)
    /\ UNCHANGED << currentStep, analysisResult >>
    /\ UNCHANGED << viewVars, infer >>

\* handleAnalyze up to its await: called by handleSubmit as onAnalyze(formData)
handleAnalyzeStart(formData) ==
    /\ currentStep' = "analyzing"
    /\ error' = Null
    /\ inflight' = Append(inflight, formData)
    /\ UNCHANGED analysisResult
    /\ UNCHANGED << viewVars, infer >>

\* handleSubmit of UploadSection, with the call of onAnalyze it ends in.  The
\* submit button is disabled while mainReport is null (line 584); the handler
\* keeps its own validateForm test and is modelled as written, whoever calls it.
handleSubmit ==
    /\ currentStep = "upload"
    /\ LET newErrors == validateForm(mainReport)
       IN  IF ~noErrors(newErrors)
           THEN /\ errors' = newErrors
                /\ UNCHANGED << mainReport, additionalPhotos, clientInfo, nextId >>
                /\ UNCHANGED appVars
                /\ UNCHANGED << viewVars, infer >>
           ELSE /\ handleAnalyzeStart(buildFormData(mainReport, additionalPhotos, clientInfo))
                /\ FormUnmounted

\* the catch branch with setCurrentStep('results')
handleAnalyzeCatch_ToResults(response) ==
    /\ error' = errorMessage(response)
    /\ currentStep' = "results"
    /\ inflight' = Tail(inflight)
    /\ UNCHANGED analysisResult
    /\ UNCHANGED formVars
    /\ UNCHANGED << viewVars, infer >>

\* the catch branch without setCurrentStep('upload')
handleAnalyzeCatch_NoStep(response) ==
    /\ error' = errorMessage(response)
    /\ inflight' = Tail(inflight)
    /\ UNCHANGED << currentStep, analysisResult >>
    /\ UNCHANGED formVars
    /\ UNCHANGED << viewVars, infer >>

\* the catch branch of handleAnalyze
handleAnalyzeCatch(response) ==
    /\ error' = errorMessage(response)
    /\ currentStep' = "upload"
    /\ inflight' = Tail(inflight)
    /\ UNCHANGED analysisResult
    /\ UNCHANGED formVars
    /\ UNCHANGED << viewVars, infer >>

\* the awaited POST resolves with a 2xx response
ResponseOk ==
    /\ inflight # << >>
    /\ \E data \in ResponseBodies :
          /\ analysisResult' = data
          /\ currentStep' = "results"
    /\ inflight' = Tail(inflight)
    /\ UNCHANGED error
    /\ UNCHANGED formVars
    /\ UNCHANGED << viewVars, infer >>

\* the awaited POST rejects with an error response
ResponseError ==
    /\ inflight # << >>
    /\ \E detail \in ErrorDetails : handleAnalyzeCatch(ErrorResponse(detail))

\* the awaited POST rejects without a response
NetworkError ==
    /\ inflight # << >>
    /\ handleAnalyzeCatch(NoResponse)

\* timeout: 120000 elapses; axios aborts the request and rejects without a response
Timeout ==
    /\ inflight # << >>
    /\ handleAnalyzeCatch(NoResponse)

\* AnalysisResults leaves the page: its state and what is recorded of it go
ViewUnmounted ==
    /\ activeTab' = "summary"
    /\ downloads' = << >>
    /\ lastAlert' = Null

\* handleReset without setAnalysisResult(null)
handleReset_KeepsResult ==
    /\ currentStep = "results"
    /\ Truthy(analysisResult)
    /\ currentStep' = "upload"
    /\ error' = Null
    /\ ViewUnmounted
    /\ UNCHANGED << analysisResult, inflight >>
    /\ UNCHANGED formVars
    /\ UNCHANGED infer

\* handleReset, reached through onReset of the mounted results view
handleReset ==
    /\ currentStep = "results"
    /\ Truthy(analysisResult)
    /\ currentStep' = "upload"
    /\ analysisResult' = Null
    /\ error' = Null
    /\ ViewUnmounted
    /\ UNCHANGED inflight
    /\ UNCHANGED formVars
    /\ UNCHANGED infer

----------------------------------------------------------------------------
(* AnalysisResults, rendered while currentStep is 'results' and            *)
(* analysisResult is truthy                                                *)

ResultsShown == currentStep = "results" /\ Truthy(analysisResult)

Tabs == {"summary", "parties", "details", "full"}

PdfAlertText == "PDF download will be implemented with backend integration"

\* a file name without the session_id
briefingFileName_NoSession(result) == <<"lexintake_briefing_", "", ".html">>

\* `lexintake_briefing_${result.session_id}.html`
briefingFileName(result) == <<"lexintake_briefing_", result.session_id, ".html">>

\* new Blob([result.briefing_html], { type: 'text/html' }) saved under a.download
htmlArtifact(result) ==
    [name |-> briefingFileName(result),
     content |-> result.briefing_html,
     type |-> "text/html"]

setActiveTab ==
    /\ ResultsShown
    /\ \E tab \in Tabs : activeTab' = tab
    /\ UNCHANGED << downloads, lastAlert >>
    /\ UNCHANGED << appVars, formVars, infer >>

\* a download that consumes the briefing it saves
downloadBriefingOf_Consumes(format) ==
    /\ IF format = "html"
       THEN /\ Len(downloads) < MaxDownloads
            /\ downloads' = Append(downloads, htmlArtifact(analysisResult))
            /\ analysisResult' = [analysisResult EXCEPT !.briefing_html = Null]
            /\ UNCHANGED lastAlert
       ELSE /\ lastAlert' = JsStr(PdfAlertText)
            /\ UNCHANGED << downloads, analysisResult >>
    /\ UNCHANGED activeTab
    /\ UNCHANGED << currentStep, error, inflight, formVars, infer >>

\* downloadBriefing(format)
downloadBriefingOf(format) ==
    /\ IF format = "html"
       THEN /\ Len(downloads) < MaxDownloads
            /\ downloads' = Append(downloads, htmlArtifact(analysisResult))
            /\ UNCHANGED lastAlert
       ELSE IF format = "pdf"
       THEN /\ lastAlert' = JsStr(PdfAlertText)
            /\ UNCHANGED downloads
       ELSE UNCHANGED << downloads, lastAlert >>
    /\ UNCHANGED activeTab
    /\ UNCHANGED << appVars, formVars, infer >>

\* the 'Download HTML Report' button
downloadHtml == ResultsShown /\ downloadBriefingOf("html")

\* the 'Download PDF Report' button
downloadPdf == ResultsShown /\ downloadBriefingOf("pdf")

\* party_a_fault_percentage !== null
faultDistributionShown(result) ==
    result.analysis.fault_assessment.party_a_fault_percentage # Null

\* the two values of the 'Estimated Fault Distribution' block
faultDistribution(result) ==
    <<result.analysis.fault_assessment.party_a_fault_percentage,
      result.analysis.fault_assessment.party_b_fault_percentage>>

\* {result.analysis.extraction_confidence && ( ... )}
qualityCardShown(result) == Truthy(result.analysis.extraction_confidence)

\* Math.round(result.analysis.extraction_confidence * 100)
confidenceShown(result) ==
    LET c == result.analysis.extraction_confidence
    IN  (200 * c.num + c.den) \div (2 * c.den)

\* the 'Missing: ...' line, inside the data quality card
missingShown(result) ==
    /\ qualityCardShown(result)
    /\ Len(result.analysis.missing_information) > 0

\* the labels of the photo analysis list: Photo {photo.photo_id}
photoLabels(result) ==
    [i \in 1..Len(result.analysis.photo_analyses) |->
        <<"Photo", result.analysis.photo_analyses[i].photo_id>>]

\* the descriptions of the photo analysis list, in the order rendered
photoDescriptions(result) ==
    [i \in 1..Len(result.analysis.photo_analyses) |->
        result.analysis.photo_analyses[i].description]

----------------------------------------------------------------------------

\* the frontend as mounted: step 'upload', an empty form, nothing shown
FrontendIdle ==
    /\ currentStep = "upload"
    /\ analysisResult = Null
    /\ error = Null
    /\ mainReport = Null
    /\ additionalPhotos = << >>
    /\ clientInfo = InitialClientInfo
    /\ errors = InitialErrors
    /\ inflight = << >>
    /\ nextId = 1
    /\ activeTab = "summary"
    /\ downloads = << >>
    /\ lastAlert = Null

Init ==
    /\ FrontendIdle
    /\ infer = InferIdle

RequestSettles == ResponseOk \/ ResponseError \/ NetworkError \/ Timeout

Next ==
    \/ onDropReport
    \/ onDropPhotos
    \/ removePhoto
    \/ removeReport
    \/ setClientInfo
    \/ handleSubmit
    \/ ResponseOk
    \/ ResponseError
    \/ NetworkError
    \/ Timeout
    \/ handleReset
    \/ setActiveTab
    \/ downloadHtml
    \/ downloadPdf

Spec == Init /\ [][Next]_vars

\* one run of the Inference Client against each provider script
InferInit ==
    /\ FrontendIdle
    /\ \E script \in ProviderScripts : infer = InferStart(script)

InferNext ==
    \/ InferAttempt
    \/ InferResume
    \/ InferCancel

InferSpec == InferInit /\ [][InferNext]_vars

\* the request timeout makes the awaited POST settle
FairSpec == Spec /\ WF_vars(RequestSettles)

----------------------------------------------------------------------------
(* Vocabulary of the properties *)

Requests == {inflight[i] : i \in 1..Len(inflight)}
SeqElems(q) == {q[i] : i \in 1..Len(q)}
MetadataKeys == {"client_name", "client_email", "additional_notes"}

IsSpace(c) == c \in {" ", "\t", "\n"}

RECURSIVE TrimLeft(_)
TrimLeft(str) ==
    IF str # << >> /\ IsSpace(Head(str)) THEN TrimLeft(Tail(str)) ELSE str

RECURSIVE TrimRight(_)
TrimRight(str) ==
    IF str # << >> /\ IsSpace(str[Len(str)])
    THEN TrimRight(SubSeq(str, 1, Len(str) - 1))
    ELSE str

Trim(str) == TrimRight(TrimLeft(str))

\* the media types pdf, png, jpg, jpeg, gif, bmp
AllowedTypes ==
    {<<"application", "pdf">>, <<"image", "png">>, <<"image", "jpeg">>,
     <<"image", "gif">>, <<"image", "bmp">>}

WithinIntakeRules(f) == f.type \in AllowedTypes /\ f.size <= MaxSize

IsPdf(f) == f.type = <<"application", "pdf">> \/ f.ext = ".pdf"

AsReport(f) == reportAccepted(<<f>>) = <<f>>
AsPhoto(f) == photosAccepted(<<f>>) = <<f>>

\* the files the form holds, and files of further kinds
FilesInForm ==
    (IF mainReport = Null THEN {} ELSE {mainReport})
        \cup {additionalPhotos[i].file : i \in 1..Len(additionalPhotos)}
ProbeFiles ==
    ReportDropFiles \cup PhotoDropFiles
        \cup {File("", "", ".bmp", 4096), File("image", "tiff", ".tif", 4096),
              File("application", "octet-stream", ".pdf", 4096),
              File("application", "pdf", ".pdf", MaxSize + 1)}

Ids(photos) == [i \in 1..Len(photos) |-> photos[i].id]
Increasing(ids) == \A i \in 1..Len(ids), j \in 1..Len(ids) : i < j => ids[i] < ids[j]

\* the intake error a message shown by the form stands for
ShownIntakeErrors ==
    IF errors.report = JsStr(RequiredMessage) THEN {"MissingPrimaryDocument"} ELSE {}

----------------------------------------------------------------------------
(* Properties *)

\* C1: a handleSubmit while no primary document is selected sets the
\* 'report is required' error, issues no request and leaves the step 'upload'.
C1_MissingReportNoRequest ==
    [][(handleSubmit /\ mainReport = Null)
          => /\ errors'.report = JsStr(RequiredMessage)
             /\ inflight' = inflight
             /\ currentStep' = "upload"]_vars

C1_Witness ==
    /\ currentStep = "upload"
    /\ mainReport = Null
    /\ errors.report = JsStr(RequiredMessage)
    /\ inflight = << >>

\* C2: the photo list never holds more than 5 photos and no request carries
\* more than 5 'photos' entries.
C2_AtMostFivePhotos ==
    /\ Len(additionalPhotos) <= MaxPhotos
    /\ \A r \in Requests : Len(r.photos) <= MaxPhotos

\* five photos kept while a sixth accepted file was cut off by the slice
C2_Witness ==
    /\ Ids(additionalPhotos) = <<1, 2, 3, 4, 5>>
    /\ nextId > MaxPhotos + 1

\* C3: every request sent carries exactly one 'accident_report' entry, and
\* it is a file.
C3_ExactlyOneReport ==
    \A r \in Requests :
        /\ Len(r.accident_report) = 1
        /\ r.accident_report[1] # Null
        /\ AsReport(r.accident_report[1])

C3_Witness ==
    /\ inflight # << >>
    /\ inflight[1].accident_report = <<PdfFile>>
    /\ Len(inflight[1].photos) = 2

\* C4: the selected primary document, and the one of every request, has a
\* media type among pdf, png, jpg, jpeg, gif, bmp and a size of at most 10MB.
C4_ReportWithinAllowList ==
    /\ mainReport # Null => WithinIntakeRules(mainReport)
    /\ \A r \in Requests : \A f \in SeqElems(r.accident_report) : WithinIntakeRules(f)

\* C5 as claimed: a file of at most 10MB is accepted as a photo if and only
\* if it is accepted as a primary document.
C5_SameAllowList ==
    \A f \in FilesInForm :
        f.size <= MaxSize => (AsPhoto(f) <=> AsReport(f))

\* C5 as amended: the two zones agree on every file of at most 10MB that is
\* not a PDF; a PDF is accepted as the primary document only.
C5_SameImageAllowList ==
    \A f \in FilesInForm \cup ProbeFiles :
        /\ (f.size <= MaxSize /\ ~IsPdf(f)) => (AsPhoto(f) <=> AsReport(f))
        /\ (f.size <= MaxSize /\ f.type = <<"application", "pdf">> /\ f.ext = ".pdf")
              => (AsReport(f) /\ ~AsPhoto(f))
        /\ f.size > MaxSize => (~AsPhoto(f) /\ ~AsReport(f))

\* an image outside the extension list selected as the report, and a photo held
C5_Witness ==
    /\ mainReport = WebpFile
    /\ Len(additionalPhotos) > 0
    /\ additionalPhotos[1].file = PngFile

\* C6: every metadata field of a request is non-empty after trimming.
C6_MetadataNonEmptyTrimmed ==
    \A r \in Requests : \A k \in MetadataKeys :
        \A value \in SeqElems(r[k]) : Trim(value) # << >>

\* C7: a drop holding a file of unsupported type, an oversized file, or
\* photos beyond the fifth leaves the matching intake error shown.
C7_ViolationsReported ==
    [][/\ \A files \in PhotoDrops :
            (currentStep = "upload" /\ onDropPhotosOf(files))
            => /\ (\E f \in SeqElems(files) : ~fileAccepted(f, PhotosAccept))
                      => "UnsupportedType" \in ShownIntakeErrors'
               /\ (\E f \in SeqElems(files) : ~fileMatchSize(f, MaxSize))
                      => "TooLarge" \in ShownIntakeErrors'
               /\ Len(additionalPhotos) + Len(photosAccepted(files)) > MaxPhotos
                      => "TooManyPhotos" \in ShownIntakeErrors'
       /\ \A files \in ReportDrops :
            (currentStep = "upload" /\ onDropReportOf(files))
            => /\ (\E f \in SeqElems(files) : ~fileAccepted(f, ReportAccept))
                      => "UnsupportedType" \in ShownIntakeErrors'
               /\ (\E f \in SeqElems(files) : ~fileMatchSize(f, MaxSize))
                      => "TooLarge" \in ShownIntakeErrors']_vars

\* C8: the photos of the form and of every request are in the order in
\* which they were added.
C8_PhotosInAddedOrder ==
    /\ Increasing(Ids(additionalPhotos))
    /\ \A r \in Requests : Increasing(Ids(r.photos))

\* a request sent after a removal in the middle and a later drop
C8_Witness ==
    /\ inflight # << >>
    /\ Len(inflight[1].photos) >= 3
    /\ inflight[1].photos[2].id > inflight[1].photos[1].id + 1
    /\ inflight[1].photos[3].id > inflight[1].photos[2].id + 1

\* C9: step 'analyzing' is always left, to 'results' with the response or to
\* 'upload' with an error, and the request is then no longer in flight.
C9_AnalyzingEnds ==
    /\ (currentStep = "analyzing") ~> (currentStep # "analyzing")
    /\ [][(currentStep = "analyzing" /\ currentStep' # "analyzing")
             => /\ inflight' = << >>
                /\ \/ currentStep' = "results" /\ analysisResult' \in ResponseBodies
                   \/ currentStep' = "upload" /\ Truthy(error')]_vars

\* back on the form with the fallback text after a request without response
C9_Witness ==
    /\ currentStep = "upload"
    /\ error = JsStr(FallbackMessage)
    /\ inflight = << >>

\* C10: the error shown is always a string.
C10_ErrorIsString ==
    error # Null => IsString(error)

C12_OneRequestInFlight ==
    /\ Len(inflight) <= 1
    /\ Len(inflight) = 1 <=> currentStep = "analyzing"

\* a request carrying photos is pending and the form is gone
C12_Witness ==
    /\ currentStep = "analyzing"
    /\ Len(inflight) = 1
    /\ Len(inflight[1].photos) > 0
    /\ mainReport = Null

\* C13: choosing the PDF download yields a PDF artifact of the briefing for
\* the current session_id, as choosing HTML yields the HTML artifact.
C13_PdfDownloadYieldsArtifact ==
    [][downloadPdf
          => /\ Len(downloads') = Len(downloads) + 1
             /\ downloads'[Len(downloads')].type = "application/pdf"
             /\ analysisResult.session_id \in SeqElems(downloads'[Len(downloads')].name)]_vars

\* C14: every HTML download of a result is named
\* lexintake_briefing_<session_id>.html and holds exactly the result's
\* briefing_html, so two downloads of one result are the same file.
C14_HtmlDownloadFaithful ==
    \A i \in 1..Len(downloads) :
        /\ ResultsShown
        /\ downloads[i].name = <<"lexintake_briefing_", analysisResult.session_id, ".html">>
        /\ downloads[i].content = analysisResult.briefing_html
        /\ downloads[i].type = "text/html"
        /\ \A j \in 1..Len(downloads) :
              /\ downloads[j].name = downloads[i].name
              /\ downloads[j].content = downloads[i].content

\* the same result downloaded twice
C14_Witness ==
    /\ ResultsShown
    /\ Len(downloads) >= 2
    /\ downloads[1] = downloads[2]
    /\ downloads[1].content = render(analysisResult.analysis, analysisResult.session_id)

\* C15: while the results view is shown, the only step that changes
\* analysisResult is handleReset: switching tabs, downloading HTML and
\* requesting the PDF leave the result, its session_id and its briefing_html
\* as they are.
C15_BriefingImmutable ==
    [][/\ (ResultsShown /\ analysisResult' # analysisResult) => handleReset
       /\ (setActiveTab \/ downloadHtml \/ downloadPdf)
             => /\ analysisResult' = analysisResult
                /\ analysisResult'.session_id = analysisResult.session_id
                /\ analysisResult'.briefing_html = analysisResult.briefing_html]_vars

\* every action of the results view has been taken and the result is whole
C15_Witness ==
    /\ ResultsShown
    /\ activeTab # "summary"
    /\ downloads # << >>
    /\ lastAlert = JsStr(PdfAlertText)
    /\ analysisResult.briefing_html = render(analysisResult.analysis, analysisResult.session_id)

C17_MissingListed ==
    \A body \in ResultBodies :
        (analysisResult = body /\ Len(body.analysis.missing_information) > 0)
            => /\ currentStep = "results"
               /\ error = Null
               /\ qualityCardShown(body)
               /\ missingShown(body)

\* C18: the photo analyses are listed in the order of photo_analyses and
\* labelled Photo 1, Photo 2, ..., Photo n in that order.
C18_PhotosNumberedInOrder ==
    ResultsShown
        => /\ photoDescriptions(analysisResult)
                = [i \in 1..Len(analysisResult.analysis.photo_analyses) |->
                      analysisResult.analysis.photo_analyses[i].description]
           /\ \A i \in 1..Len(analysisResult.analysis.photo_analyses) :
                 photoLabels(analysisResult)[i] = <<"Photo", Num(i, 1)>>

\* C19: handleReset leaves the app as it was first mounted: step 'upload',
\* analysisResult null, error null, an empty form and no request pending, so
\* that a new analysis can be submitted as the first one was.
C19_ResetStartsOver ==
    [][handleReset
          => /\ currentStep' = "upload"
             /\ analysisResult' = Null
             /\ error' = Null
             /\ FrontendIdle']_vars

\* the results view with 'Analyze Another Case' at hand; the state the reset
\* leads to is the initial one
C19_Witness ==
    /\ ResultsShown
    /\ error = Null
    /\ inflight = << >>
    /\ mainReport = Null

\* C20: whenever the upload form is shown again after a run, it holds no
\* primary document, no photos and empty client name, email and notes; the
\* form holds nothing either while it is not shown.
C20_NothingRemains ==
    [][(currentStep # "upload" /\ currentStep' = "upload")
          => /\ mainReport' = Null
             /\ additionalPhotos' = << >>
             /\ clientInfo' = InitialClientInfo
             /\ mainReport = Null
             /\ additionalPhotos = << >>
             /\ clientInfo = InitialClientInfo]_vars

\* the empty form shown again after a request that failed with a detail
C20_Witness ==
    /\ currentStep = "upload"
    /\ error = JsStr("Invalid file type")
    /\ mainReport = Null
    /\ additionalPhotos = << >>
    /\ clientInfo = InitialClientInfo

\* a value that is there: neither null nor undefined
Present(x) == x \notin {Null, Undefined}

\* a is the beginning of b
IsPrefix(a, b) == Len(a) <= Len(b) /\ SubSeq(b, 1, Len(a)) = a

\* C21: the estimated fault distribution is displayed if and only if both
\* fault percentages are present in the result; when either is null or
\* missing from the payload, no percentage is displayed.
C21_NoFabricatedFaultSplit ==
    ResultsShown
        => (faultDistributionShown(analysisResult)
               <=> /\ Present(faultDistribution(analysisResult)[1])
                   /\ Present(faultDistribution(analysisResult)[2]))

\* C22: whenever currentStep is 'results', analysisResult is non-null and
\* the results view with its reset button is rendered, whatever body the
\* successful response carried.
C22_ResultsHaveResult ==
    currentStep = "results" => (analysisResult # Null /\ ResultsShown)

\* C23: error is non-null only at step 'upload': starting an analysis clears
\* it before the request is sent, so that no error banner is shown at steps
\* 'analyzing' and 'results'.
C23_ErrorOnlyAtUpload ==
    /\ error # Null => currentStep = "upload"
    /\ currentStep \in {"analyzing", "results"} => ~Truthy(error)

\* an earlier error is on screen and the form is filled in for the next attempt
C23_Witness ==
    /\ currentStep = "upload"
    /\ error # Null
    /\ mainReport # Null
    /\ additionalPhotos # << >>

\* C24: analysisResult is non-null only at step 'results'; steps 'upload' and
\* 'analyzing' always have analysisResult null.
C24_ResultOnlyAtResults ==
    /\ analysisResult # Null => currentStep = "results"
    /\ currentStep \in {"upload", "analyzing"} => analysisResult = Null

\* back on the form after a failed analysis, with no result held
C24_Witness ==
    /\ currentStep = "upload"
    /\ error = JsArr("validation errors")
    /\ analysisResult = Null

\* C25: the step only moves upload -> analyzing, analyzing -> results on a
\* successful response, analyzing -> upload, and results -> upload on reset.
C25_StepMachine ==
    [][currentStep' # currentStep
          => \/ currentStep = "upload" /\ currentStep' = "analyzing"
             \/ currentStep = "analyzing" /\ currentStep' = "results" /\ ResponseOk
             \/ currentStep = "analyzing" /\ currentStep' = "upload"
             \/ currentStep = "results" /\ currentStep' = "upload" /\ handleReset]_vars

\* the results step, just entered
C25_Witness ==
    /\ currentStep = "results"
    /\ analysisResult \in ResultBodies
    /\ activeTab = "summary"
    /\ downloads = << >>
    /\ lastAlert = Null

\* C26: after a photo drop the list is the first 5 of the photos already
\* selected followed by the accepted photos of the drop: a selected photo is
\* never evicted by a drop, and a drop onto a full list leaves it unchanged.
\* The steps that give out photo identities are the drops that accept files;
\* the photos of a drop carry the identities nextId, nextId + 1, ... in drop
\* order.
C26_DropKeepsSelected ==
    [][nextId' > nextId
          => /\ IsPrefix(additionalPhotos, additionalPhotos')
             /\ Len(additionalPhotos')
                   = (IF Len(additionalPhotos) + (nextId' - nextId) < 5
                      THEN Len(additionalPhotos) + (nextId' - nextId)
                      ELSE 5)
             /\ \A i \in (Len(additionalPhotos) + 1)..Len(additionalPhotos') :
                   additionalPhotos'[i].id = nextId + (i - Len(additionalPhotos)) - 1
             /\ Len(additionalPhotos) = 5 => additionalPhotos' = additionalPhotos]_vars

\* a full list of which a drop has been cut: an identity above the last
\* photo's was given out and is not in the list
C26_Witness ==
    /\ currentStep = "upload"
    /\ Len(additionalPhotos) = 5
    /\ nextId > additionalPhotos[5].id + 1

\* C27: the 'report is required' error is set only while no primary document
\* is selected: a drop that selects a document clears it, and removing the
\* selected document does not set it.
C27_RequiredOnlyWithoutReport ==
    /\ [](errors.report = JsStr(RequiredMessage) => mainReport = Null)
    /\ [][/\ (mainReport' # Null /\ mainReport' # mainReport) => errors'.report = Null
          /\ removeReport => errors' = errors]_vars

\* a document selected on a form whose report error has been cleared
C27_Witness ==
    /\ currentStep = "upload"
    /\ mainReport # Null
    /\ errors.report = Null

\* the drops on the report dropzone of which no file is accepted
RejectedReportDrops == {files \in ReportDrops : Len(reportAccepted(files)) = 0}

\* C28: a primary-document drop in which every file is rejected leaves the
\* selected document, the photo list, the client info and the errors as they
\* were, so that a later submit sends the document selected before.
C28_RejectedDropChangesNothing ==
    /\ [](currentStep = "upload"
             => \A files \in RejectedReportDrops :
                   LET after == reportAfterDrop(mainReport, errors, files)
                   IN  /\ after.mainReport = mainReport
                       /\ after.errors = errors
                       /\ buildFormData(after.mainReport, additionalPhotos, clientInfo)
                             = buildFormData(mainReport, additionalPhotos, clientInfo))
    /\ [][(currentStep = "upload" /\ currentStep' = "upload"
              /\ (mainReport' # mainReport \/ errors' # errors))
             => UNCHANGED << additionalPhotos, clientInfo >>]_vars

\* a filled-in form, on which a rejected drop can land
C28_Witness ==
    /\ currentStep = "upload"
    /\ mainReport = PdfFile
    /\ additionalPhotos # << >>
    /\ clientInfo # InitialClientInfo
    /\ errors.report = Null

====
